---- MODULE Spec2Model ----
(***************************************************************************)
(* Model of the candidate screening pipeline (src/src/*.py):               *)
(*   - the three stages enrich_candidate, detect_fake, score_candidate,    *)
(*   - the per-candidate task _process_one,                                *)
(*   - the orchestrator run_pipeline (ThreadPoolExecutor + as_completed),  *)
(*   - the partition / ranking part of generate_report.                    *)
(*                                                                         *)
(* JSON values returned by the external services are records               *)
(*   [t |-> type, s |-> string payload, n |-> integer payload]             *)
(* a list is [t |-> "list", s |-> type of its items, n |-> its length];    *)
(* a key missing from a JSON object is the value JMissing.                 *)
(* composite_score is kept in hundredths (weights are in percent).         *)
(***************************************************************************)
EXTENDS Integers, Sequences, FiniteSets, TLC

\* ------------------------------------------------------------------ bounds
MaxCandidates == 2
MaxBatch == 2
MaxTopN == 1

\* ------------------------------------------------------------- JSON values
JStr(x) == [t |-> "str", s |-> x, n |-> 0]
JInt(k) == [t |-> "int", s |-> "", n |-> k]
JBool(b) == [t |-> "bool", s |-> "", n |-> IF b THEN 1 ELSE 0]
JList(items, k) == [t |-> "list", s |-> items, n |-> k]
JNull == [t |-> "null", s |-> "", n |-> 0]
JMissing == [t |-> "missing", s |-> "", n |-> 0]

\* Python truth value of a JSON value
Truthy(v) ==
    CASE v.t = "str" -> v.s # ""
      [] v.t = "int" -> v.n # 0
      [] v.t = "bool" -> v.n # 0
      [] v.t = "list" -> v.n > 0
      [] OTHER -> FALSE

\* for x in v: works on str and list, TypeError on int, bool, None
Iterable(v) == v.t \in {"str", "list"}

\* hash(v): TypeError on a list
Hashable(v) == v.t # "list"

\* v * float: works on int and bool, TypeError otherwise
Numeric(v) == v.t \in {"int", "bool"}

\* dict.get(key, default)
Get(data, key, default) == IF data[key].t = "missing" THEN default ELSE data[key]

\* ------------------------------------------------------------- data model
FakeRiskValues == {"definitely_fake", "likely_fake", "uncertain", "likely_real", "verified"}

\* models.LinkedInProfile(...)
LinkedInProfile(found, url, current_title, current_company, past_roles, education, location, summary, raw_search_results) ==
    [found |-> found, url |-> url, current_title |-> current_title,
     current_company |-> current_company, past_roles |-> past_roles,
     education |-> education, location |-> location, summary |-> summary,
     raw_search_results |-> raw_search_results]

\* models.LinkedInProfile(raw_search_results=raw), every other field at its default
LinkedInProfileRaw(raw) ==
    LinkedInProfile(JBool(FALSE), JStr(""), JStr(""), JStr(""), JList("str", 0),
                    JList("str", 0), JStr(""), JStr(""), raw)

\* models.LinkedInProfile()
LinkedInProfileDefault == LinkedInProfileRaw("")

\* models.FakeDetectionResult()
FakeDetectionResultDefault ==
    [risk_level |-> "uncertain", confidence_score |-> JInt(50),
     reasons |-> JList("str", 0), details |-> JStr("")]

\* models.QualificationScore()
QualificationScoreDefault ==
    [skills_match |-> JInt(0), experience_relevance |-> JInt(0),
     experience_level |-> JInt(0), education |-> JInt(0),
     overall_impression |-> JInt(0), composite_score |-> 0,
     justification |-> JStr(""), strengths |-> JList("str", 0),
     concerns |-> JList("str", 0)]

\* config.ScoringWeights defaults, in percent
ScoringWeights ==
    [skills_match |-> 35, experience_relevance |-> 25, experience_level |-> 20,
     education |-> 10, overall_impression |-> 10]

\* ------------------------------------------------------- external services
\* A response of the text-structuring service, as the stage sees it:
\*   kind  construct_fail  Anthropic(...) raises
\*         call_fail       client.messages.create raises
\*         non_json        the text is not JSON
\*         non_object      the text is JSON but not an object (a list, a number)
\*         object          the text is a JSON object, obj maps its keys
\*   fence none | block (```json ... ```) | bare (starts with ``` and has no newline)
EnrichKeys == {"found", "url", "current_title", "current_company", "past_roles",
               "education", "location", "summary"}
DetectKeys == {"risk_level", "confidence_score", "reasons", "details"}
\* composite_score: a composite the response may report itself; no stage reads it
ScoreKeys == {"skills_match", "experience_relevance", "experience_level", "education",
              "overall_impression", "justification", "strengths", "concerns",
              "composite_score"}

NoObj(keys) == [k \in keys |-> JMissing]
Resp(kind, fence, obj) == [kind |-> kind, fence |-> fence, obj |-> obj]

\* text.startswith("```"): text.split("\n", 1)[1] raises IndexError without a newline
\* "raise" | "non_json" | "non_object" | "object": what json.loads(text) then gives
ParseText(resp) ==
    IF resp.fence = "bare" THEN "raise"
    ELSE IF resp.kind = "non_json" THEN "non_json"
    ELSE IF resp.kind = "non_object" THEN "non_object"
    ELSE "object"

\* what a stage hands back: a value, or an exception that escapes it
Returned(v, ev) == [raised |-> FALSE, val |-> v, ev |-> ev]
Raised(v, ev) == [raised |-> TRUE, val |-> v, ev |-> ev]

\* --------------------------------------------------------------- enrichment
\* enrichment._search_linkedin: the raw payload, or an exception
search_linkedin(search) ==
    IF search = "client_fail" THEN Raised("", << >>)
    ELSE IF search = "call_fail" THEN Raised("", <<"search">>)
    ELSE Returned("payload", <<"search">>)

\* enrichment._parse_linkedin_with_llm
parse_linkedin_with_llm(resp, search_results) ==
    IF resp.kind = "construct_fail" THEN Raised(LinkedInProfileDefault, << >>)
    ELSE IF resp.kind = "call_fail" THEN Raised(LinkedInProfileDefault, <<"llm_enrich">>)
    ELSE LET parsed == ParseText(resp)
             data == resp.obj
         IN CASE parsed = "raise" -> Raised(LinkedInProfileDefault, <<"llm_enrich">>)
              [] parsed = "non_json" ->
                   Returned(LinkedInProfileRaw(search_results), <<"llm_enrich">>)
              [] parsed = "non_object" -> Raised(LinkedInProfileDefault, <<"llm_enrich">>)
              [] OTHER ->
                   Returned(LinkedInProfile(
                       Get(data, "found", JBool(FALSE)),
                       Get(data, "url", JStr("")),
                       Get(data, "current_title", JStr("")),
                       Get(data, "current_company", JStr("")),
                       Get(data, "past_roles", JList("str", 0)),
                       Get(data, "education", JList("str", 0)),
                       Get(data, "location", JStr("")),
                       Get(data, "summary", JStr("")),
                       search_results), <<"llm_enrich">>)

\* mutant: a failed search is tried a second time
enrich_try_retry(search, resp) ==
    LET raw == search_linkedin(search)
    IN IF raw.raised THEN Raised(LinkedInProfileDefault, raw.ev \o raw.ev)
       ELSE LET p == parse_linkedin_with_llm(resp, raw.val)
            IN [p EXCEPT !.ev = raw.ev \o p.ev]

\* enrichment.enrich_candidate, lines 121-122: the body of its try
enrich_try(search, resp) ==
    LET raw == search_linkedin(search)
    IN IF raw.raised THEN Raised(LinkedInProfileDefault, raw.ev)
       ELSE LET p == parse_linkedin_with_llm(resp, raw.val)
            IN [p EXCEPT !.ev = raw.ev \o p.ev]

\* mutant: no except clause around the search and the parse
enrich_candidate_notry(tavily_api_key, search, resp) ==
    IF ~tavily_api_key THEN Returned(LinkedInProfileDefault, << >>)
    ELSE enrich_try(search, resp)

\* mutant: the credential is not looked at
enrich_candidate_nokeycheck(tavily_api_key, search, resp) ==
    LET r == enrich_try(search, resp)
    IN IF r.raised THEN Returned(LinkedInProfileDefault, r.ev) ELSE r

\* enrichment.enrich_candidate
enrich_candidate(tavily_api_key, search, resp) ==
    IF ~tavily_api_key THEN Returned(LinkedInProfileDefault, << >>)
    ELSE LET r == enrich_try(search, resp)
         IN IF r.raised THEN Returned(LinkedInProfileDefault, r.ev) ELSE r

\* ------------------------------------------------------------- authenticity
\* mutant: an unrecognised value is taken for a real candidate
risk_map_get_likely_real(v) ==
    IF v.t = "str" /\ v.s \in FakeRiskValues THEN v.s ELSE "likely_real"

\* risk_map.get(data.get("risk_level", "uncertain"), FakeRisk.UNCERTAIN)
risk_map_get(v) == IF v.t = "str" /\ v.s \in FakeRiskValues THEN v.s ELSE "uncertain"

\* fake_detector.detect_fake, lines 70-92: the body of its try
detect_try(resp) ==
    IF resp.kind = "call_fail" THEN Raised(FakeDetectionResultDefault, <<"llm_detect">>)
    ELSE LET parsed == ParseText(resp)
             data == resp.obj
             v == Get(data, "risk_level", JStr("uncertain"))
         IN IF parsed # "object" \/ ~Hashable(v)
            THEN Raised(FakeDetectionResultDefault, <<"llm_detect">>)
            ELSE Returned([risk_level |-> risk_map_get(v),
                           confidence_score |-> Get(data, "confidence_score", JInt(50)),
                           reasons |-> Get(data, "reasons", JList("str", 0)),
                           details |-> Get(data, "details", JStr(""))],
                          <<"llm_detect">>)

\* mutant: no except clause around the call and the parse
detect_fake_notry(linkedin, resp) ==
    IF resp.kind = "construct_fail" THEN Raised(FakeDetectionResultDefault, << >>)
    ELSE detect_try(resp)

\* fake_detector.detect_fake: the client is built and the prompt formatted outside
\* the try (json.dumps takes every value of linkedin.past_roles and .education)
detect_fake(linkedin, resp) ==
    IF resp.kind = "construct_fail" THEN Raised(FakeDetectionResultDefault, << >>)
    ELSE LET r == detect_try(resp)
         IN IF r.raised THEN Returned(FakeDetectionResultDefault, r.ev) ELSE r

\* ------------------------------------------------------------------ scoring
\* the evidence block of score_candidate: which parts were put into the prompt
\* mutant: the roles of the profile are appended whether or not it was found
experience_data_always(linkedin) ==
    <<"candidate.experiences">>
    \o (IF Truthy(linkedin.past_roles)
        THEN <<"linkedin.past_roles">>
             \o (IF Truthy(linkedin.current_title) THEN <<"linkedin.current_title">>
                 ELSE << >>)
        ELSE << >>)

experience_data(linkedin) ==
    <<"candidate.experiences">>
    \o (IF Truthy(linkedin.found) /\ Truthy(linkedin.past_roles)
        THEN <<"linkedin.past_roles">>
             \o (IF Truthy(linkedin.current_title) THEN <<"linkedin.current_title">>
                 ELSE << >>)
        ELSE << >>)

education_data(linkedin) ==
    <<"candidate.educations">>
    \o (IF Truthy(linkedin.found) /\ Truthy(linkedin.education)
        THEN <<"linkedin.education">> ELSE << >>)

\* "\n".join(... for role in linkedin.past_roles) raises TypeError on a non-iterable
evidence_raises(linkedin) ==
    \/ Truthy(linkedin.found) /\ Truthy(linkedin.past_roles) /\ ~Iterable(linkedin.past_roles)
    \/ Truthy(linkedin.found) /\ Truthy(linkedin.education) /\ ~Iterable(linkedin.education)

\* mutant: each dimension is clamped to 0..100 before it is weighted
composite_score_clamped(score, w) ==
    LET clamp(v) == IF v < 0 THEN 0 ELSE IF v > 100 THEN 100 ELSE v
    IN clamp(score.skills_match.n) * w.skills_match
       + clamp(score.experience_relevance.n) * w.experience_relevance
       + clamp(score.experience_level.n) * w.experience_level
       + clamp(score.education.n) * w.education
       + clamp(score.overall_impression.n) * w.overall_impression

\* the weighted composite, in hundredths
composite_score(score, w) ==
    score.skills_match.n * w.skills_match
    + score.experience_relevance.n * w.experience_relevance
    + score.experience_level.n * w.experience_level
    + score.education.n * w.education
    + score.overall_impression.n * w.overall_impression

\* scorer.score_candidate, lines 93-128: the body of its try
score_try(resp, w) ==
    IF resp.kind = "call_fail" THEN Raised(QualificationScoreDefault, <<"llm_score">>)
    ELSE LET parsed == ParseText(resp)
             data == resp.obj
             score == [skills_match |-> Get(data, "skills_match", JInt(0)),
                       experience_relevance |-> Get(data, "experience_relevance", JInt(0)),
                       experience_level |-> Get(data, "experience_level", JInt(0)),
                       education |-> Get(data, "education", JInt(0)),
                       overall_impression |-> Get(data, "overall_impression", JInt(0)),
                       composite_score |-> 0,
                       justification |-> Get(data, "justification", JStr("")),
                       strengths |-> Get(data, "strengths", JList("str", 0)),
                       concerns |-> Get(data, "concerns", JList("str", 0))]
             numeric == /\ Numeric(score.skills_match)
                        /\ Numeric(score.experience_relevance)
                        /\ Numeric(score.experience_level)
                        /\ Numeric(score.education)
                        /\ Numeric(score.overall_impression)
         IN IF parsed # "object" \/ ~numeric
            THEN Raised(QualificationScoreDefault, <<"llm_score">>)
            ELSE Returned([score EXCEPT !.composite_score = composite_score(score, w)],
                          <<"llm_score">>)

\* mutant: no except clause around the call and the parse
score_candidate_notry(linkedin, resp, w) ==
    IF resp.kind = "construct_fail" THEN Raised(QualificationScoreDefault, << >>)
    ELSE IF evidence_raises(linkedin) THEN Raised(QualificationScoreDefault, << >>)
    ELSE score_try(resp, w)

\* scorer.score_candidate: the client is built and the evidence block put together
\* outside the try
score_candidate(linkedin, resp, w) ==
    IF resp.kind = "construct_fail" THEN Raised(QualificationScoreDefault, << >>)
    ELSE IF evidence_raises(linkedin) THEN Raised(QualificationScoreDefault, << >>)
    ELSE LET r == score_try(resp, w)
         IN IF r.raised THEN Returned(QualificationScoreDefault, r.ev) ELSE r

\* ---------------------------------------------------------- ScreenedCandidate
ScreenedCandidate(c, linkedin, fake_detection, qualification) ==
    [candidate |-> c, linkedin |-> linkedin, fake_detection |-> fake_detection,
     qualification |-> qualification]

\* mutant: an uncertain candidate counts as flagged
is_flagged_fake_uncertain(s) ==
    s.fake_detection.risk_level \in {"definitely_fake", "likely_fake", "uncertain"}

\* mutant: a candidate with a confidence below 40 counts as flagged too
is_flagged_fake_by_confidence(s) ==
    \/ s.fake_detection.risk_level \in {"definitely_fake", "likely_fake"}
    \/ s.fake_detection.confidence_score.n < 40

\* mutant: only a definitely_fake candidate counts as flagged
is_flagged_fake_definitely(s) == s.fake_detection.risk_level = "definitely_fake"

\* ScreenedCandidate.is_flagged_fake
is_flagged_fake(s) == s.fake_detection.risk_level \in {"definitely_fake", "likely_fake"}

\* ScreenedCandidate.final_score
final_score(s) == IF is_flagged_fake(s) THEN 0 ELSE s.qualification.composite_score

\* ------------------------------------------------------------------ worlds
\* What the external services answer for one candidate: the outcome of the search
\* and the response of the text-structuring service to each of the three stages.
EnrichObj(d) == [k \in EnrichKeys |-> IF k \in DOMAIN d THEN d[k] ELSE JMissing]
DetectObj(d) == [k \in DetectKeys |-> IF k \in DOMAIN d THEN d[k] ELSE JMissing]
ScoreObj(d) == [k \in ScoreKeys |-> IF k \in DOMAIN d THEN d[k] ELSE JMissing]

World(search, enrich, detect, score) ==
    [search |-> search, enrich |-> enrich, detect |-> detect, score |-> score]

EnrichFound ==
    Resp("object", "none",
         EnrichObj([found |-> JBool(TRUE), url |-> JStr("url"),
                    current_title |-> JStr("title"), current_company |-> JStr("company"),
                    past_roles |-> JList("str", 2), education |-> JList("str", 1),
                    location |-> JStr("city"), summary |-> JStr("text")]))
EnrichNotFound == Resp("object", "block", EnrichObj([found |-> JBool(FALSE)]))
\* found is false although roles and education were filled in
EnrichNotFoundRoles ==
    Resp("object", "none",
         EnrichObj([found |-> JBool(FALSE), current_title |-> JStr("title"),
                    past_roles |-> JList("str", 2), education |-> JList("str", 1)]))
EnrichBadRoles ==
    Resp("object", "none",
         EnrichObj([found |-> JBool(TRUE), url |-> JStr("url"), past_roles |-> JInt(7)]))

DetectLevel(v) ==
    Resp("object", "none",
         DetectObj([risk_level |-> v, confidence_score |-> JInt(80),
                    reasons |-> JList("str", 1), details |-> JStr("text")]))

ScoreDims(a, b, c, d, e) ==
    Resp("object", "none",
         ScoreObj([skills_match |-> a, experience_relevance |-> b, experience_level |-> c,
                   education |-> d, overall_impression |-> e,
                   justification |-> JStr("text"), strengths |-> JList("str", 2),
                   concerns |-> JList("str", 1), composite_score |-> JInt(99)]))
ScoreHigh == ScoreDims(JInt(80), JInt(70), JInt(60), JInt(90), JInt(50))
ScoreLow == ScoreDims(JInt(60), JInt(60), JInt(60), JInt(60), JInt(60))

\* the worlds of the orchestrator's specification: a genuine candidate, a flagged
\* one, one without a profile, one whose profile breaks the scoring prompt, one
\* whose scoring call fails
Genuine == World("ok", EnrichFound, DetectLevel(JStr("verified")), ScoreHigh)
Flagged == World("ok", EnrichFound, DetectLevel(JStr("likely_fake")), ScoreHigh)
NotFound == World("ok", EnrichNotFound, DetectLevel(JStr("uncertain")), ScoreLow)
BadRoles == World("ok", EnrichBadRoles, DetectLevel(JStr("likely_real")), ScoreHigh)
ScoreFails ==
    World("call_fail", EnrichFound, DetectLevel(JStr("likely_real")),
          Resp("call_fail", "none", NoObj(ScoreKeys)))
Scenarios == {Genuine, Flagged, NotFound, BadRoles, ScoreFails}

\* the worlds of the single-task specification
FailKinds == {"construct_fail", "call_fail", "non_json", "non_object"}
EnrichResps ==
    {Resp(k, "none", NoObj(EnrichKeys)) : k \in FailKinds}
    \cup {Resp("object", "bare", NoObj(EnrichKeys)), EnrichFound, EnrichNotFound,
          EnrichNotFoundRoles}
    \cup {Resp("object", "none",
               EnrichObj([found |-> f, url |-> JStr("url"), past_roles |-> r,
                          education |-> e])) :
            f \in {JBool(TRUE), JStr("yes")},
            r \in {JMissing, JInt(7), JStr("roles")},
            e \in {JMissing, JInt(3)}}
RiskValues ==
    {JStr(v) : v \in FakeRiskValues}
    \cup {JMissing, JStr("FAKE"), JStr(""), JInt(1), JNull, JList("str", 1)}
DetectResps ==
    {Resp(k, "none", NoObj(DetectKeys)) : k \in FailKinds}
    \cup {Resp("object", "bare", NoObj(DetectKeys)),
          Resp("object", "block", DetectObj([risk_level |-> JStr("definitely_fake")]))}
    \cup {DetectLevel(v) : v \in RiskValues}
ScoreResps ==
    {Resp(k, "none", NoObj(ScoreKeys)) : k \in FailKinds}
    \cup {ScoreHigh,
          Resp("object", "block", ScoreObj([skills_match |-> JInt(80)])),
          ScoreDims(JInt(150), JInt(0 - 10), JInt(60), JInt(90), JInt(50)),
          ScoreDims(JStr("80"), JInt(70), JInt(60), JInt(90), JInt(50)),
          Resp("object", "none",
               ScoreObj([skills_match |-> JInt(80), strengths |-> JList("int", 2)]))}
AllWorlds ==
    {World(s, e, d, q) : s \in {"ok", "call_fail", "client_fail"},
                         e \in EnrichResps, d \in DetectResps, q \in ScoreResps}

\* ------------------------------------------------------------------- state
VARIABLES
    config,         \* config.Config: the keys, batch_size, report_top_n, scoring_weights,
                    \* fake_flag_threshold
    jd_exists,      \* whether the job-description file exists
    num,            \* len(candidates)
    ext,            \* candidate -> World
    main,           \* position of run_pipeline
    next,           \* the next candidate to submit
    queue,          \* the executor's work queue
    worker,         \* worker thread -> the candidate it runs, 0 when idle
    pc,             \* candidate -> position of its _process_one
    linkedin,       \* candidate -> local of _process_one
    fake_result,    \* candidate -> local of _process_one
    qualification,  \* candidate -> local of _process_one
    trace,          \* candidate -> the external calls and stages so far
    evidence,       \* candidate -> the evidence block given to the scoring call
    snapshot,       \* as_completed: futures found finished when it was called
    waiter,         \* as_completed: futures finished since, in completion order
    completed,      \* the finished tasks in the order their futures were set; late:
                    \* as_completed had been called by then
    screened,       \* the collected result list
    failed,         \* the candidates logged as FAILED
    report          \* the partitions generate_report renders

vars == <<config, jd_exists, num, ext, main, next, queue, worker, pc, linkedin,
          fake_result, qualification, trace, evidence, snapshot, waiter, completed,
          screened, failed, report>>

Cands == 1..num
Finished == {"returned", "raised"}
Running == {"enrich", "detect", "branch", "score"}

\* mutant: one worker per candidate
max_workers_per_candidate == num

\* ThreadPoolExecutor(max_workers=config.batch_size)
max_workers == config.batch_size

NoReport == [made |-> FALSE, flagged |-> << >>, top |-> << >>, rest |-> << >>]

\* config.Config.fake_flag_threshold, its default
fake_flag_threshold == 40

ConfigsAll(batches, tops, weights, thresholds) ==
    [anthropic_api_key : BOOLEAN, tavily_api_key : BOOLEAN, batch_size : batches,
     report_top_n : tops, scoring_weights : weights, fake_flag_threshold : thresholds]

\* the threshold left at its default
ConfigsWith(batches, tops, weights) ==
    ConfigsAll(batches, tops, weights, {fake_flag_threshold})

\* the weights left at their defaults
Configs(batches, tops) == ConfigsWith(batches, tops, {ScoringWeights})

InitWith(n, worlds, configs) ==
    /\ config \in configs
    /\ jd_exists \in BOOLEAN
    /\ num \in n
    /\ ext \in [1..num -> worlds]
    /\ main = "start"
    /\ next = 1
    /\ queue = << >>
    /\ worker = [w \in 1..max_workers |-> 0]
    /\ pc = [c \in 1..num |-> "new"]
    /\ linkedin = [c \in 1..num |-> LinkedInProfileDefault]
    /\ fake_result = [c \in 1..num |-> FakeDetectionResultDefault]
    /\ qualification = [c \in 1..num |-> QualificationScoreDefault]
    /\ trace = [c \in 1..num |-> << >>]
    /\ evidence = [c \in 1..num |-> << >>]
    /\ snapshot = {}
    /\ waiter = << >>
    /\ completed = << >>
    /\ screened = << >>
    /\ failed = << >>
    /\ report = NoReport

Init == InitWith(0..MaxCandidates, Scenarios, Configs(1..MaxBatch, {0, MaxTopN}))

\* one candidate, every world
InitTask == InitWith(0..1, AllWorlds, Configs({1}, {MaxTopN}))

\* one candidate, every scoring response, under several weightings (config.yaml:
\* scoring_weights), in percent
WeightChoices ==
    {ScoringWeights,
     [skills_match |-> 20, experience_relevance |-> 20, experience_level |-> 20,
      education |-> 20, overall_impression |-> 20],
     [skills_match |-> 50, experience_relevance |-> 30, experience_level |-> 20,
      education |-> 0, overall_impression |-> 0]}
ScoreWorlds ==
    {World("ok", EnrichFound, DetectLevel(JStr(v)), q) :
        v \in {"verified", "likely_fake"}, q \in ScoreResps}
InitScore == InitWith(0..1, ScoreWorlds, ConfigsWith({1}, {MaxTopN}, WeightChoices))

\* one candidate of each risk level, under several thresholds (config.yaml:
\* fake_detection.flag_threshold) and several confidence scores of the response
Thresholds == {0, fake_flag_threshold, 100}
Confidences == {JInt(0), JInt(80), JInt(100), JMissing}
DetectConfidence(v, k) ==
    Resp("object", "none",
         DetectObj([risk_level |-> v, confidence_score |-> k,
                    reasons |-> JList("str", 1), details |-> JStr("text")]))
ThresholdWorlds ==
    {World("ok", EnrichFound, DetectConfidence(JStr(v), k), ScoreHigh) :
        v \in FakeRiskValues, k \in Confidences}
InitThreshold ==
    InitWith(0..1, ThresholdWorlds,
             ConfigsAll({1}, {0, MaxTopN}, {ScoringWeights}, Thresholds))

\* runs with candidates whose scoring fails: the call raises, or the response is
\* not JSON
ScoreGarbled ==
    World("ok", EnrichFound, DetectLevel(JStr("verified")),
          Resp("non_json", "none", NoObj(ScoreKeys)))
InitScoreFails ==
    InitWith(0..MaxCandidates, {Genuine, Flagged, ScoreFails, ScoreGarbled},
             Configs(1..MaxBatch, {0, MaxTopN}))

\* the runs checked for termination: the search credential is configured; tasks
\* that return, with and without scoring, and tasks that raise
InitFair ==
    /\ InitWith(0..MaxCandidates, {Genuine, Flagged, BadRoles},
                Configs(1..MaxBatch, {MaxTopN}))
    /\ config.tavily_api_key

\* the end-to-end run: candidate 1 is genuine with a high score, candidate 2 is
\* judged likely_fake, candidate 3 has no profile and is scored on its application
EndToEnd == <<Genuine, Flagged, NotFound>>
InitEndToEnd ==
    /\ InitWith({0, Len(EndToEnd)}, Scenarios, Configs(1..MaxBatch, 0..MaxTopN))
    /\ ext = [c \in 1..num |-> EndToEnd[c]]

\* ------------------------------------------------------------ report.py
\* sorted(valid, key=final_score, reverse=True): stable, equal keys keep their order
RECURSIVE InsertDesc(_, _)
InsertDesc(x, sorted) ==
    IF sorted = << >> THEN <<x>>
    ELSE IF final_score(Head(sorted)) >= final_score(x)
         THEN <<Head(sorted)>> \o InsertDesc(x, Tail(sorted))
         ELSE <<x>> \o sorted

\* mutant: the valid results are left in the order they were collected
SortedDesc_unsorted(xs) == xs

RECURSIVE SortedDesc(_)
SortedDesc(xs) ==
    IF xs = << >> THEN << >>
    ELSE InsertDesc(xs[Len(xs)], SortedDesc(SubSeq(xs, 1, Len(xs) - 1)))

IsFlagged(s) == is_flagged_fake(s)
\* mutant: the ranking takes every result, flagged or not
NotFlagged_all(s) == TRUE

NotFlagged(s) == ~is_flagged_fake(s)
Min(a, b) == IF a < b THEN a ELSE b

\* "; ".join(v[:2]) if v else "-": TypeError on a non-empty value that is neither a
\* string nor a list of strings
join_raises(v) == Truthy(v) /\ ~(v.t = "str" \/ (v.t = "list" /\ v.s = "str"))

\* rendering a row of the top table and its detailed profile (lines 60, 112-119)
render_top_raises(s) ==
    \/ join_raises(s.qualification.strengths)
    \/ join_raises(s.qualification.concerns)
    \/ join_raises(s.fake_detection.reasons)

\* rendering a row of the flagged table (line 129)
render_flagged_raises(s) == join_raises(s.fake_detection.reasons)

\* mutant: the flagged results are listed last collected first
generate_report_flagged_reversed(results, top_n) ==
    LET fakes == SelectSeq(results, IsFlagged)
        valid == SelectSeq(results, NotFlagged)
        valid_sorted == SortedDesc(valid)
    IN [made |-> TRUE,
        flagged |-> [i \in 1..Len(fakes) |-> fakes[Len(fakes) + 1 - i]],
        top |-> SubSeq(valid_sorted, 1, Min(top_n, Len(valid_sorted))),
        rest |-> SubSeq(valid_sorted, Min(top_n, Len(valid_sorted)) + 1, Len(valid_sorted))]

\* the partitions of generate_report: fakes, top, rest
generate_report(results, top_n) ==
    LET fakes == SelectSeq(results, IsFlagged)
        valid == SelectSeq(results, NotFlagged)
        valid_sorted == SortedDesc(valid)
    IN [made |-> TRUE,
        flagged |-> fakes,
        top |-> SubSeq(valid_sorted, 1, Min(top_n, Len(valid_sorted))),
        rest |-> SubSeq(valid_sorted, Min(top_n, Len(valid_sorted)) + 1, Len(valid_sorted))]

\* ------------------------------------------------------------ run_pipeline
\* line 61: the primary credential is missing, sys.exit(1)
NoApiKey ==
    /\ main = "start"
    /\ ~config.anthropic_api_key
    /\ main' = "exit_1"
    /\ UNCHANGED <<completed, config, jd_exists, num, ext, next, queue, worker, pc,
                   linkedin, fake_result, qualification, trace, evidence, snapshot, waiter,
                   screened, failed, report>>

\* line 70: the candidate list is empty, sys.exit(0)
NoCandidates ==
    /\ main = "start"
    /\ config.anthropic_api_key
    /\ num = 0
    /\ main' = "exit_0"
    /\ UNCHANGED <<completed, config, jd_exists, num, ext, next, queue, worker, pc,
                   linkedin, fake_result, qualification, trace, evidence, snapshot, waiter,
                   screened, failed, report>>

\* line 76: load_job_description raises FileNotFoundError
NoJobDescription ==
    /\ main = "start"
    /\ config.anthropic_api_key
    /\ num > 0
    /\ ~jd_exists
    /\ main' = "file_not_found"
    /\ UNCHANGED <<completed, config, jd_exists, num, ext, next, queue, worker, pc,
                   linkedin, fake_result, qualification, trace, evidence, snapshot, waiter,
                   screened, failed, report>>

\* mutant: the job description is not loaded before the tasks are dispatched
Preflight_without_jd ==
    /\ main = "start"
    /\ config.anthropic_api_key
    /\ num > 0
    /\ main' = "submit"
    /\ UNCHANGED <<completed, config, jd_exists, num, ext, next, queue, worker, pc,
                   linkedin, fake_result, qualification, trace, evidence, snapshot,
                   waiter, screened, failed, report>>

\* lines 59-82: the pre-flight checks pass and the pool is built
Preflight ==
    /\ main = "start"
    /\ config.anthropic_api_key
    /\ num > 0
    /\ jd_exists
    /\ main' = "submit"
    /\ UNCHANGED <<completed, config, jd_exists, num, ext, next, queue, worker, pc,
                   linkedin, fake_result, qualification, trace, evidence, snapshot, waiter,
                   screened, failed, report>>

\* lines 83-86: executor.submit(_process_one, c, ...) for the next candidate
Submit ==
    /\ main = "submit"
    /\ pc' = [pc EXCEPT ![next] = "queued"]
    /\ queue' = Append(queue, next)
    /\ next' = next + 1
    /\ main' = IF next = num THEN "as_completed" ELSE "submit"
    /\ UNCHANGED <<completed, config, jd_exists, num, ext, worker, linkedin, fake_result,
                   qualification, trace, evidence, snapshot, waiter, screened, failed,
                   report>>

\* a worker thread of the pool takes the oldest queued task
TaskStart(w) ==
    /\ worker[w] = 0
    /\ queue # << >>
    /\ worker' = [worker EXCEPT ![w] = Head(queue)]
    /\ queue' = Tail(queue)
    /\ pc' = [pc EXCEPT ![Head(queue)] = "enrich"]
    /\ UNCHANGED <<completed, config, jd_exists, num, ext, main, next, linkedin, fake_result,
                   qualification, trace, evidence, snapshot, waiter, screened, failed,
                   report>>

\* mutant: the worker of a task that raised is lost to the pool
Finish_keeps_worker(c, outcome) ==
    /\ pc' = [pc EXCEPT ![c] = outcome]
    /\ worker' = IF outcome = "raised" THEN worker
                 ELSE [w \in DOMAIN worker |-> IF worker[w] = c THEN 0 ELSE worker[w]]
    /\ waiter' = IF main = "collect" THEN Append(waiter, c) ELSE waiter
    /\ completed' = Append(completed, [c |-> c, late |-> main = "collect"])

\* mutant: a finishing task does not tell the waiter of as_completed
Finish_silent(c, outcome) ==
    /\ pc' = [pc EXCEPT ![c] = outcome]
    /\ worker' = [w \in DOMAIN worker |-> IF worker[w] = c THEN 0 ELSE worker[w]]
    /\ waiter' = waiter
    /\ completed' = Append(completed, [c |-> c, late |-> main = "collect"])

\* mutant: the waiter hands out the most recently finished future first
Finish_lifo(c, outcome) ==
    /\ pc' = [pc EXCEPT ![c] = outcome]
    /\ worker' = [w \in DOMAIN worker |-> IF worker[w] = c THEN 0 ELSE worker[w]]
    /\ waiter' = IF main = "collect" THEN <<c>> \o waiter ELSE waiter
    /\ completed' = Append(completed, [c |-> c, late |-> main = "collect"])

\* the future of c is set (a result or an exception), its worker is idle again and
\* as_completed's waiter, once installed, is told
Finish(c, outcome) ==
    /\ pc' = [pc EXCEPT ![c] = outcome]
    /\ worker' = [w \in DOMAIN worker |-> IF worker[w] = c THEN 0 ELSE worker[w]]
    /\ waiter' = IF main = "collect" THEN Append(waiter, c) ELSE waiter
    /\ completed' = Append(completed, [c |-> c, late |-> main = "collect"])

\* main.py line 30: linkedin = enrich_candidate(candidate, config)
Enrich(c) ==
    /\ pc[c] = "enrich"
    /\ LET r == enrich_candidate(config.tavily_api_key, ext[c].search, ext[c].enrich)
       IN /\ trace' = [trace EXCEPT ![c] = @ \o <<"enrich">> \o r.ev]
          /\ IF r.raised
             THEN /\ Finish(c, "raised")
                  /\ UNCHANGED linkedin
             ELSE /\ linkedin' = [linkedin EXCEPT ![c] = r.val]
                  /\ pc' = [pc EXCEPT ![c] = "detect"]
                  /\ UNCHANGED <<worker, waiter, completed>>
    /\ UNCHANGED <<config, jd_exists, num, ext, main, next, queue, fake_result,
                   qualification, evidence, snapshot, screened, failed, report>>

\* main.py line 33: fake_result = detect_fake(candidate, linkedin, config)
Detect(c) ==
    /\ pc[c] = "detect"
    /\ LET r == detect_fake(linkedin[c], ext[c].detect)
       IN /\ trace' = [trace EXCEPT ![c] = @ \o <<"detect">> \o r.ev]
          /\ IF r.raised
             THEN /\ Finish(c, "raised")
                  /\ UNCHANGED fake_result
             ELSE /\ fake_result' = [fake_result EXCEPT ![c] = r.val]
                  /\ pc' = [pc EXCEPT ![c] = "branch"]
                  /\ UNCHANGED <<worker, waiter, completed>>
    /\ UNCHANGED <<config, jd_exists, num, ext, main, next, queue, linkedin,
                   qualification, evidence, snapshot, screened, failed, report>>

\* mutant: an uncertain candidate skips the scoring too
skip_scoring_uncertain(fake) ==
    fake.risk_level \in {"definitely_fake", "likely_fake", "uncertain"}

\* mutant: only definitely_fake skips the scoring
skip_scoring_definitely(fake) == fake.risk_level = "definitely_fake"

\* main.py line 36: fake_result.risk_level.value in ("definitely_fake", "likely_fake")
skip_scoring(fake) == fake.risk_level \in {"definitely_fake", "likely_fake"}

\* main.py lines 36-40 and 44: scoring is skipped, the task returns
SkipScoring(c) ==
    /\ pc[c] = "branch"
    /\ skip_scoring(fake_result[c])
    /\ qualification' = [qualification EXCEPT ![c] = QualificationScoreDefault]
    /\ Finish(c, "returned")
    /\ UNCHANGED <<config, jd_exists, num, ext, main, next, queue, linkedin, fake_result,
                   trace, evidence, snapshot, screened, failed, report>>

\* main.py lines 42 and 44: qualification = score_candidate(...), the task returns
Score(c) ==
    /\ pc[c] = "branch"
    /\ ~skip_scoring(fake_result[c])
    /\ LET r == score_candidate(linkedin[c], ext[c].score, config.scoring_weights)
       IN /\ trace' = [trace EXCEPT ![c] = @ \o <<"score">> \o r.ev]
          /\ evidence' = [evidence EXCEPT ![c] =
                 IF "llm_score" \in {r.ev[i] : i \in DOMAIN r.ev}
                 THEN <<experience_data(linkedin[c]), education_data(linkedin[c])>>
                 ELSE << >>]
          /\ IF r.raised
             THEN /\ Finish(c, "raised")
                  /\ UNCHANGED qualification
             ELSE /\ qualification' = [qualification EXCEPT ![c] = r.val]
                  /\ Finish(c, "returned")
    /\ UNCHANGED <<config, jd_exists, num, ext, main, next, queue, linkedin, fake_result,
                   snapshot, screened, failed, report>>

\* mutant: the tasks keep their profile in one variable that they share
Result_shared(c) == ScreenedCandidate(c, linkedin[1], fake_result[c], qualification[c])

\* the ScreenedCandidate a returned task built (main.py lines 44-49)
Result(c) == ScreenedCandidate(c, linkedin[c], fake_result[c], qualification[c])

\* main.py line 87: as_completed(futures) notes the futures already finished and
\* installs its waiter for the others
AsCompleted ==
    /\ main = "as_completed"
    /\ snapshot' = {c \in Cands : pc[c] \in Finished}
    /\ main' = "collect"
    /\ UNCHANGED <<completed, config, jd_exists, num, ext, next, queue, worker, pc,
                   linkedin, fake_result, qualification, trace, evidence, waiter, screened, failed,
                   report>>

\* mutant: no except clause around future.result()
collect_result_notry(c) ==
    IF pc[c] = "returned"
    THEN [screened |-> Append(screened, Result(c)), failed |-> failed, crashed |-> FALSE]
    ELSE [screened |-> screened, failed |-> failed, crashed |-> TRUE]

\* main.py lines 89-101: future.result() is appended, or its exception is logged
collect_result(c) ==
    IF pc[c] = "returned"
    THEN [screened |-> Append(screened, Result(c)), failed |-> failed, crashed |-> FALSE]
    ELSE [screened |-> screened, failed |-> Append(failed, c), crashed |-> FALSE]

\* main.py lines 87-101: one turn of the loop over as_completed(futures); the futures
\* already finished come first, in no particular order, then the others as they finish
Collect(c) ==
    /\ main = "collect"
    /\ \/ c \in snapshot
       \/ snapshot = {} /\ waiter # << >> /\ c = Head(waiter)
    /\ snapshot' = snapshot \ {c}
    /\ waiter' = IF c \in snapshot THEN waiter ELSE Tail(waiter)
    /\ screened' = collect_result(c).screened
    /\ failed' = collect_result(c).failed
    /\ main' = IF collect_result(c).crashed THEN "crashed"
               ELSE IF Len(screened) + Len(failed) + 1 = num THEN "report"
               ELSE "collect"
    /\ UNCHANGED <<completed, config, jd_exists, num, ext, next, queue, worker, pc,
                   linkedin, fake_result, qualification, trace, evidence, report>>

\* main.py lines 111-115: generate_report, save_report; an exception of the
\* rendering escapes run_pipeline and nothing is saved
Report ==
    /\ main = "report"
    /\ LET r == generate_report(screened, config.report_top_n)
       IN IF \/ \E i \in DOMAIN r.top : render_top_raises(r.top[i])
             \/ \E i \in DOMAIN r.flagged : render_flagged_raises(r.flagged[i])
          THEN /\ report' = NoReport
               /\ main' = "report_raised"
          ELSE /\ report' = r
               /\ main' = "done"
    /\ UNCHANGED <<completed, config, jd_exists, num, ext, next, queue, worker, pc,
                   linkedin, fake_result, qualification, trace, evidence, snapshot, waiter,
                   screened, failed>>

Next ==
    \/ NoApiKey
    \/ NoCandidates
    \/ NoJobDescription
    \/ Preflight
    \/ Submit
    \/ \E w \in DOMAIN worker : TaskStart(w)
    \/ \E c \in Cands : Enrich(c)
    \/ \E c \in Cands : Detect(c)
    \/ \E c \in Cands : SkipScoring(c)
    \/ \E c \in Cands : Score(c)
    \/ AsCompleted
    \/ \E c \in Cands : Collect(c)
    \/ Report

Spec == Init /\ [][Next]_vars

SpecTask == InitTask /\ [][Next]_vars

SpecScore == InitScore /\ [][Next]_vars

SpecEndToEnd == InitEndToEnd /\ [][Next]_vars

SpecThreshold == InitThreshold /\ [][Next]_vars

SpecScoreFails == InitScoreFails /\ [][Next]_vars

\* ------------------------------------------------------------------ claims
InTrace(c, e) == \E i \in DOMAIN trace[c] : trace[c][i] = e

\* enrich_candidate has returned to _process_one
EnrichReturned(c) == pc[c] = "detect" \/ InTrace(c, "detect")

\* detect_fake has returned to _process_one
DetectReturned(c) == pc[c] \in {"branch", "returned"} \/ InTrace(c, "score")

FlaggedLevels == {"definitely_fake", "likely_fake"}
UnflaggedLevels == {"uncertain", "likely_real", "verified"}

\* C1: at every instant the number of per-candidate tasks that are executing is at
\* most config.batch_size.
C1_ConcurrencyBound ==
    Cardinality({c \in Cands : pc[c] \in Running}) <= config.batch_size

\* C1 witness: the pool is full while another task waits in the queue.
C1_Witness ==
    /\ Cardinality({c \in Cands : pc[c] \in Running}) = config.batch_size
    /\ queue # << >>

\* C2: the run never crashes on a task that raised, and once the loop over the
\* futures has ended the collected list holds exactly one result for each task
\* that returned and none for a task that raised: N - k results.
C2_Containment ==
    /\ main # "crashed"
    /\ main \in {"report", "done"} =>
         /\ \A c \in Cands : pc[c] \in Finished
         /\ Len(screened) = num - Cardinality({c \in Cands : pc[c] = "raised"})
         /\ \A c \in Cands :
              pc[c] = "returned" =>
                Cardinality({i \in DOMAIN screened : screened[i] = Result(c)}) = 1
         /\ \A c \in Cands :
              pc[c] = "raised" =>
                \A i \in DOMAIN screened : screened[i].candidate # c

\* C2 witness: a finished run of two candidates, one of which raised.
C2_Witness ==
    /\ main = "done"
    /\ \E c \in Cands : pc[c] = "raised"
    /\ \E c \in Cands : pc[c] = "returned"
    /\ Len(screened) = num - 1

\* C3: a candidate whose authenticity stage returned definitely_fake or likely_fake
\* never has the scoring stage or its external call issued, and its result carries
\* the default QualificationScore and a final score of 0.
C3_FlaggedSkipsScoring ==
    \A c \in Cands :
      (DetectReturned(c) /\ fake_result[c].risk_level \in FlaggedLevels) =>
        /\ ~InTrace(c, "score")
        /\ ~InTrace(c, "llm_score")
        /\ pc[c] = "returned" =>
             /\ Result(c).qualification = QualificationScoreDefault
             /\ final_score(Result(c)) = 0
             /\ \A i \in DOMAIN screened :
                  screened[i].candidate = c =>
                    /\ screened[i].qualification = QualificationScoreDefault
                    /\ final_score(screened[i]) = 0

\* C3 witness: a likely_fake candidate has returned although the scoring service
\* would have given it a high score.
C3_Witness ==
    \E c \in Cands :
      /\ pc[c] = "returned"
      /\ fake_result[c].risk_level = "likely_fake"
      /\ ext[c].score = ScoreHigh
      /\ InTrace(c, "llm_detect")

\* C4: in every collected ScreenedCandidate the final score is 0 for the risk levels
\* definitely_fake and likely_fake and equals qualification.composite_score for
\* uncertain, likely_real and verified; the record stores neither final_score nor
\* is_flagged_fake.
C4_FinalScore ==
    \A i \in DOMAIN screened :
      LET s == screened[i]
      IN /\ s.fake_detection.risk_level \in FlaggedLevels => final_score(s) = 0
         /\ s.fake_detection.risk_level \in UnflaggedLevels =>
              final_score(s) = s.qualification.composite_score
         /\ s.fake_detection.risk_level \in FlaggedLevels \cup UnflaggedLevels
         /\ DOMAIN s = {"candidate", "linkedin", "fake_detection", "qualification"}

\* C4 witness: an uncertain candidate with a positive composite score was collected.
C4_Witness ==
    \E i \in DOMAIN screened :
      /\ screened[i].fake_detection.risk_level = "uncertain"
      /\ screened[i].qualification.composite_score > 0

\* C5 (as claimed): no per-candidate task ever raises.
C5_TaskNeverRaises == \A c \in Cands : pc[c] # "raised"

\* C6: enrich_candidate never raises, and with a credential configured a failed
\* search or a failed text-structuring call gives the default LinkedInProfile.
C6_EnrichNeverRaises ==
    \A c \in Cands :
      /\ pc[c] = "raised" => InTrace(c, "detect")
      /\ (/\ EnrichReturned(c)
          /\ config.tavily_api_key
          /\ \/ ext[c].search # "ok"
             \/ ext[c].enrich.kind \in {"construct_fail", "call_fail"}) =>
           linkedin[c] = LinkedInProfileDefault

\* C6 witness: the search succeeded, the text-structuring call failed and
\* enrich_candidate returned.
C6_Witness ==
    \E c \in Cands :
      /\ config.tavily_api_key
      /\ ext[c].search = "ok"
      /\ ext[c].enrich.kind = "call_fail"
      /\ InTrace(c, "llm_enrich")
      /\ pc[c] = "detect"

\* C7: without a search credential no search call and no enrichment
\* text-structuring call is issued for any candidate, and enrich_candidate returns
\* the default LinkedInProfile.
C7_NoKeyNoCalls ==
    ~config.tavily_api_key =>
      \A c \in Cands :
        /\ ~InTrace(c, "search")
        /\ ~InTrace(c, "llm_enrich")
        /\ EnrichReturned(c) => linkedin[c] = LinkedInProfileDefault

\* C7 witness: no credential, and enrich_candidate has returned for a candidate
\* whose search and enrichment response would both have succeeded.
C7_Witness ==
    /\ ~config.tavily_api_key
    /\ \E c \in Cands :
         /\ EnrichReturned(c)
         /\ ext[c].search = "ok"
         /\ ext[c].enrich = EnrichFound

\* C8 (as claimed): when the search succeeds and the enrichment response is not
\* JSON or is JSON that is not an object, enrich_candidate returns found=false with
\* the raw search payload and every other field empty.
C8_ParseFallbackKeepsPayload ==
    \A c \in Cands :
      (/\ EnrichReturned(c)
       /\ config.tavily_api_key
       /\ ext[c].search = "ok"
       /\ ext[c].enrich.kind \in {"non_json", "non_object"}
       /\ ext[c].enrich.fence = "none") =>
        linkedin[c] = LinkedInProfileRaw("payload")

\* C9: when the authenticity response is a JSON object, each of the five recognised
\* strings gives the matching risk level and every other value of risk_level (a
\* missing key, another string, a number, null, a list) gives uncertain; the stage
\* does not raise on any of them.
C9_RiskLevelParsing ==
    \A c \in Cands :
      LET resp == ext[c].detect
          v == resp.obj["risk_level"]
      IN (InTrace(c, "detect") /\ resp.kind = "object" /\ resp.fence # "bare") =>
           /\ DetectReturned(c)
           /\ fake_result[c].risk_level =
                IF v \in {JStr(x) : x \in FakeRiskValues} THEN v.s ELSE "uncertain"

\* C9 witness: the response carried a list as risk_level and the stage returned
\* uncertain.
C9_Witness ==
    \E c \in Cands :
      /\ DetectReturned(c)
      /\ ext[c].detect.kind = "object"
      /\ ext[c].detect.obj["risk_level"] = JList("str", 1)
      /\ fake_result[c].risk_level = "uncertain"

\* C10: when the authenticity call fails or its response cannot be parsed,
\* detect_fake returns the default FakeDetectionResult, the candidate is not
\* flagged and the task goes on to the scoring stage.
C10_DetectFailureDefault ==
    \A c \in Cands :
      LET resp == ext[c].detect
      IN (/\ InTrace(c, "detect")
          /\ \/ resp.kind \in {"call_fail", "non_json", "non_object"}
             \/ resp.kind = "object" /\ resp.fence = "bare") =>
           /\ DetectReturned(c)
           /\ fake_result[c] = FakeDetectionResultDefault
           /\ fake_result[c].risk_level = "uncertain"
           /\ fake_result[c].confidence_score = JInt(50)
           /\ ~is_flagged_fake(Result(c))
           /\ pc[c] \in Finished => InTrace(c, "score")

\* C10 witness: the authenticity call failed and the scoring call was issued.
C10_Witness ==
    \E c \in Cands :
      /\ ext[c].detect.kind = "call_fail"
      /\ pc[c] = "returned"
      /\ InTrace(c, "llm_score")

\* the types the prompts ask for, per key: a response object breaks the schema when
\* a key it carries has another type
EnrichSchema ==
    [found |-> {"bool"}, url |-> {"str"}, current_title |-> {"str"},
     current_company |-> {"str"}, past_roles |-> {"list"}, education |-> {"list"},
     location |-> {"str"}, summary |-> {"str"}]
DetectSchema ==
    [risk_level |-> {"str"}, confidence_score |-> {"int"}, reasons |-> {"list"},
     details |-> {"str"}]
ScoreSchema ==
    [skills_match |-> {"int"}, experience_relevance |-> {"int"},
     experience_level |-> {"int"}, education |-> {"int"},
     overall_impression |-> {"int"}, justification |-> {"str"},
     strengths |-> {"list"}, concerns |-> {"list"}]

\* the response text is not JSON, or is JSON that does not follow the schema
Malformed(resp, schema) ==
    \/ resp.kind \in {"non_json", "non_object"}
    \/ resp.kind = "object" /\ resp.fence = "bare"
    \/ /\ resp.kind = "object"
       /\ \E k \in DOMAIN schema : resp.obj[k].t \notin schema[k] \cup {"missing"}

\* C11 (as claimed): in each of the three stages a response of the text-structuring
\* service that is not JSON or breaks the schema gives the default of the stage
\* (for the enrichment, the default profile or the one that only carries the raw
\* search payload), and the task does not raise.
C11_MalformedGivesDefault ==
    \A c \in Cands :
      /\ (/\ InTrace(c, "llm_enrich")
          /\ EnrichReturned(c)
          /\ Malformed(ext[c].enrich, EnrichSchema)) =>
           linkedin[c] \in {LinkedInProfileDefault, LinkedInProfileRaw("payload")}
      /\ (InTrace(c, "llm_detect") /\ Malformed(ext[c].detect, DetectSchema)) =>
           /\ DetectReturned(c)
           /\ fake_result[c] = FakeDetectionResultDefault
      /\ (InTrace(c, "llm_score") /\ Malformed(ext[c].score, ScoreSchema)) =>
           /\ pc[c] = "returned"
           /\ qualification[c] = QualificationScoreDefault
      /\ (/\ pc[c] = "raised"
          /\ ext[c].detect.kind # "construct_fail"
          /\ ext[c].score.kind # "construct_fail") =>
           ~Malformed(ext[c].enrich, EnrichSchema)

Dimensions ==
    {"skills_match", "experience_relevance", "experience_level", "education",
     "overall_impression"}

\* the dimension as the response carries it, 0 when the key is missing
ParsedDim(c, d) ==
    IF ext[c].score.obj[d].t = "missing" THEN 0 ELSE ext[c].score.obj[d].n

\* the scoring response of c is an object whose dimensions are numbers
ScoreParsed(c) ==
    /\ ext[c].score.kind = "object"
    /\ ext[c].score.fence # "bare"
    /\ \A d \in Dimensions : ext[c].score.obj[d].t \in {"int", "missing"}

\* C12: when the scoring response parses, composite_score is the sum over the five
\* dimensions of the parsed value times the configured weight (hundredths: value
\* times percent), a missing dimension counting 0 and out-of-range values taken as
\* they are; it is not the composite the response reports; the weights 35/25/20/10/10
\* with the scores 80, 70, 60, 90, 50 give 71.5.
C12_CompositeIsDotProduct ==
    \A c \in Cands :
      (pc[c] = "returned" /\ InTrace(c, "llm_score") /\ ScoreParsed(c)) =>
        LET w == config.scoring_weights
            q == qualification[c]
        IN /\ q.composite_score =
                ParsedDim(c, "skills_match") * w.skills_match
                + ParsedDim(c, "experience_relevance") * w.experience_relevance
                + ParsedDim(c, "experience_level") * w.experience_level
                + ParsedDim(c, "education") * w.education
                + ParsedDim(c, "overall_impression") * w.overall_impression
           /\ (w = ScoringWeights /\ ext[c].score = ScoreHigh) => q.composite_score = 7150
           /\ \A d \in Dimensions : q[d].n = ParsedDim(c, d)

\* C12 witness: under a weighting other than the default a response with an
\* out-of-range dimension was scored, and the composite differs from the one the
\* response reports.
C12_Witness ==
    \E c \in Cands :
      /\ pc[c] = "returned"
      /\ InTrace(c, "llm_score")
      /\ ScoreParsed(c)
      /\ config.scoring_weights # ScoringWeights
      /\ ParsedDim(c, "skills_match") > 100
      /\ ext[c].score.obj["composite_score"].t = "int"
      /\ qualification[c].composite_score # ext[c].score.obj["composite_score"].n * 100

\* the number of times the result of candidate c occurs in xs
Occurrences(xs, c) == Cardinality({i \in DOMAIN xs : xs[i] = Result(c)})

\* the results of xs as a set
Elems(xs) == {xs[i] : i \in DOMAIN xs}

\* C13: once the report is made, every collected result is in exactly one of
\* flagged, top and rest, the three lengths add up to the length of the collected
\* list, and flagged holds exactly the results that are flagged.
C13_Partition ==
    report.made =>
      /\ Len(report.flagged) + Len(report.top) + Len(report.rest) = Len(screened)
      /\ \A c \in Cands :
           Occurrences(report.flagged, c) + Occurrences(report.top, c)
             + Occurrences(report.rest, c) = Occurrences(screened, c)
      /\ Elems(report.flagged) \cup Elems(report.top) \cup Elems(report.rest)
           = Elems(screened)
      /\ Elems(report.flagged) = {s \in Elems(screened) : is_flagged_fake(s)}

\* C13 witness: a report over a flagged and an unflagged result with top_n = 0, so
\* that flagged and rest are populated and top is empty.
C13_Witness ==
    /\ report.made
    /\ config.report_top_n = 0
    /\ Len(report.flagged) = 1
    /\ Len(report.rest) = 1
    /\ report.top = << >>

\* the ranked output: top followed by rest
Ranked == report.top \o report.rest

\* C14: once the report is made, top followed by rest lists the unflagged results
\* by final score, highest first; top is the first report_top_n of them (all of
\* them when there are fewer) and rest the others, so no result of rest has a
\* higher final score than a result of top.
C14_RankedDescending ==
    report.made =>
      /\ \A i, j \in DOMAIN Ranked :
           i < j => final_score(Ranked[i]) >= final_score(Ranked[j])
      /\ Elems(Ranked) = {s \in Elems(screened) : ~is_flagged_fake(s)}
      /\ Len(report.top) = Min(config.report_top_n, Len(Ranked))
      /\ \A i \in DOMAIN report.top : \A j \in DOMAIN report.rest :
           final_score(report.top[i]) >= final_score(report.rest[j])

\* C14 witness: two unflagged results with different final scores and top_n = 1;
\* the one with the lower score was collected first and is in rest.
C14_Witness ==
    /\ report.made
    /\ Len(report.top) = 1
    /\ Len(report.rest) = 1
    /\ final_score(report.top[1]) > final_score(report.rest[1])
    /\ screened[1] = report.rest[1]

\* the results of the returned tasks among candidates 1..n, in submission order
RECURSIVE InSubmissionOrder(_)
InSubmissionOrder(n) ==
    IF n = 0 THEN << >>
    ELSE InSubmissionOrder(n - 1) \o (IF pc[n] = "returned" THEN <<Result(n)>> ELSE << >>)

\* the ranking of the run in which the results are collected in submission order
\* (such a run exists: a pool of one worker finishes the tasks in that order)
RankedInSubmissionOrder == SortedDesc(SelectSeq(InSubmissionOrder(num), NotFlagged))

\* C15 (as claimed): the ranked output, top followed by rest, is the same in every
\* interleaving of the tasks over the same results, equal final scores included: it
\* is the ranking that the run collecting in submission order gives.
C15_RankedIndependentOfCompletion ==
    report.made => Ranked = RankedInSubmissionOrder

\* the position of the result of candidate c in the collected list, 0 when absent
Position(c) ==
    IF \E k \in DOMAIN screened : screened[k].candidate = c
    THEN CHOOSE k \in DOMAIN screened : screened[k].candidate = c
    ELSE 0

\* C17 (as claimed): the collected list is in completion order: when the task of X
\* finished before the task of Y and both results are in the list, the result of X
\* comes first.
C17_CollectedInCompletionOrder ==
    \A i, j \in DOMAIN completed :
      (/\ i < j
       /\ Position(completed[i].c) > 0
       /\ Position(completed[j].c) > 0) =>
        Position(completed[i].c) < Position(completed[j].c)

\* C17 (amended): the same, for a task Y that finished after as_completed was
\* called; the tasks that had finished by then come first in the list, in no
\* particular order among themselves.
C17_LateInCompletionOrder ==
    \A i, j \in DOMAIN completed :
      (/\ i < j
       /\ completed[j].late
       /\ Position(completed[i].c) > 0
       /\ Position(completed[j].c) > 0) =>
        Position(completed[i].c) < Position(completed[j].c)

\* C17 witness: candidate 2 finished before candidate 1, both after as_completed
\* was called, and the collected list has the result of 2 before the result of 1.
C17_Witness ==
    /\ Len(completed) = 2
    /\ completed[1].c = 2 /\ completed[1].late
    /\ completed[2].c = 1 /\ completed[2].late
    /\ Position(2) = 1
    /\ Position(1) = 2

\* C18: when the primary credential is missing, the candidate list is empty or the
\* job description file is missing, run_pipeline stops at its pre-flight checks
\* (exit 1, exit 0, FileNotFoundError in that order of precedence): no task is
\* submitted or started, no stage and no external call is made, nothing is
\* collected and no report is produced.
C18_PreflightAbort ==
    (~config.anthropic_api_key \/ num = 0 \/ ~jd_exists) =>
      /\ main \in {"start", "exit_1", "exit_0", "file_not_found"}
      /\ main = "exit_1" <=> (main # "start" /\ ~config.anthropic_api_key)
      /\ main = "exit_0" <=> (main # "start" /\ config.anthropic_api_key /\ num = 0)
      /\ \A c \in Cands : pc[c] = "new" /\ trace[c] = << >>
      /\ queue = << >>
      /\ \A w \in DOMAIN worker : worker[w] = 0
      /\ completed = << >>
      /\ screened = << >>
      /\ failed = << >>
      /\ ~report.made

\* C18 witness: the credential is there and two candidates were parsed, the job
\* description file is missing and run_pipeline has stopped on it.
C18_Witness ==
    /\ main = "file_not_found"
    /\ config.anthropic_api_key
    /\ num = 2
    /\ \A c \in Cands : pc[c] = "new"

\* C19: in the end-to-end run over a genuine candidate (1), a likely_fake one (2)
\* and one without a profile (3), whatever the interleaving, the pool size and
\* top_n: all three results are collected, flagged is exactly the result of 2, top
\* followed by rest is the result of 1 then the result of 3 (final scores 71.5 and
\* 60), candidate 2 was never scored and has final score 0, and candidate 3 was
\* scored although its profile was not found.
C19_EndToEnd ==
    report.made =>
      /\ Len(screened) = Len(EndToEnd)
      /\ failed = << >>
      /\ report.flagged = <<Result(2)>>
      /\ Ranked = <<Result(1), Result(3)>>
      /\ final_score(Result(1)) = 7150
      /\ final_score(Result(3)) = 6000
      /\ final_score(Result(2)) = 0
      /\ ~InTrace(2, "score") /\ ~InTrace(2, "llm_score")
      /\ ~Truthy(linkedin[3].found) /\ InTrace(3, "llm_score")

\* C19 witness: the report was made after the three tasks finished and were
\* collected out of their submission order (2, 3, 1), with the search credential
\* configured.
C19_Witness ==
    /\ report.made
    /\ config.tavily_api_key
    /\ [i \in DOMAIN completed |-> completed[i].c] = <<2, 3, 1>>
    /\ [i \in DOMAIN screened |-> screened[i].candidate] = <<2, 3, 1>>

\* every thread that can take a step eventually takes one: the main thread goes on,
\* a worker with a task goes on, and every external call returns or fails
FairSpec == InitFair /\ [][Next]_vars /\ WF_vars(Next)

\* generate_report has been called with the collected list
ReportCalled == {"done", "report_raised"}

\* C20: once the pre-flight checks have passed, the run reaches the point where
\* every task has finished (returned or raised), each one was collected or logged
\* as failed, and the collected list has been handed to generate_report; after
\* that nothing is collected and the report step is not taken again.
C20_Termination ==
    /\ (main = "submit") ~>
         (/\ main \in ReportCalled
          /\ \A c \in Cands : pc[c] \in Finished
          /\ Len(screened) + Len(failed) = num)
    /\ [][(main \in ReportCalled) => UNCHANGED <<main, screened, failed, report>>]_vars

\* C20 witness: both tasks of a run raised, and the run still ended with a
\* report over the empty list.
C20_Witness ==
    /\ main = "done"
    /\ num = 2
    /\ \A c \in Cands : pc[c] = "raised"
    /\ screened = << >>
    /\ Len(failed) = 2
    /\ report.made

\* the order of the stages and of their external calls within one task
StageOrder ==
    <<"enrich", "search", "llm_enrich", "detect", "llm_detect", "score", "llm_score">>
StageRank(e) == CHOOSE k \in DOMAIN StageOrder : StageOrder[k] = e

\* the positions of _process_one in the order it passes them
TaskOrder == <<"new", "queued", "enrich", "detect", "branch", "returned", "raised">>
TaskRank(p) == CHOOSE k \in DOMAIN TaskOrder : TaskOrder[k] = p

\* C21: within one task the stages and their external calls happen in the order
\* enrichment (search, text-structuring call), authenticity (call), scoring (call),
\* each at most once; authenticity starts only after enrichment has returned and
\* is given the profile enrichment returned, scoring starts only after
\* authenticity has returned, and the task never goes back to an earlier position.
C21_StageOrder ==
    /\ [](\A c \in Cands :
            /\ \A i, j \in DOMAIN trace[c] :
                 i < j => StageRank(trace[c][i]) < StageRank(trace[c][j])
            /\ trace[c] # << >> => trace[c][1] = "enrich"
            /\ InTrace(c, "llm_detect") => InTrace(c, "detect")
            /\ InTrace(c, "score") => InTrace(c, "detect")
            /\ InTrace(c, "llm_score") => InTrace(c, "score")
            /\ InTrace(c, "detect") =>
                 linkedin[c] = enrich_candidate(config.tavily_api_key, ext[c].search,
                                                ext[c].enrich).val
            /\ InTrace(c, "score") =>
                 fake_result[c] = detect_fake(linkedin[c], ext[c].detect).val)
    /\ [][\A c \in Cands :
            /\ TaskRank(pc'[c]) >= TaskRank(pc[c])
            /\ Len(trace'[c]) >= Len(trace[c])
            /\ SubSeq(trace'[c], 1, Len(trace[c])) = trace[c]]_vars

\* C21 witness: a task has gone through the three stages and each of the four
\* external calls was issued once, in order.
C21_Witness ==
    \E c \in Cands : pc[c] = "returned" /\ trace[c] = StageOrder

\* how many times the event e is in the trace of candidate c
Count(c, e) == Cardinality({i \in DOMAIN trace[c] : trace[c][i] = e})

\* C22: a task that got past its branch with the risk level uncertain, likely_real
\* or verified has invoked the scoring stage exactly once, and one with the level
\* definitely_fake or likely_fake not at all; so for every result that was built
\* or collected, scoring was invoked if and only if the result is not flagged, and
\* the test of the branch agrees with is_flagged_fake on every risk level.
C22_ScoredIffNotFlagged ==
    \A c \in Cands :
      /\ (pc[c] \in Finished /\ InTrace(c, "detect") /\ DetectReturned(c)) =>
           /\ fake_result[c].risk_level \in UnflaggedLevels => Count(c, "score") = 1
           /\ fake_result[c].risk_level \in FlaggedLevels => Count(c, "score") = 0
           /\ fake_result[c].risk_level \in FlaggedLevels \cup UnflaggedLevels
      /\ pc[c] = "returned" =>
           /\ Count(c, "score") = (IF is_flagged_fake(Result(c)) THEN 0 ELSE 1)
           /\ skip_scoring(fake_result[c]) <=> is_flagged_fake(Result(c))
      /\ \A i \in DOMAIN screened :
           screened[i].candidate = c =>
             (InTrace(c, "score") <=> ~is_flagged_fake(screened[i]))

\* C22 witness: an uncertain candidate (the authenticity call failed) was scored
\* once and its result was collected.
C22_Witness ==
    \E c \in Cands :
      /\ ext[c].detect.kind = "call_fail"
      /\ fake_result[c].risk_level = "uncertain"
      /\ Count(c, "score") = 1
      /\ \E i \in DOMAIN screened : screened[i].candidate = c

\* _process_one as a function of the candidate, the configuration and the answers
\* of the external services to this candidate alone
process_one(c, world, cfg) ==
    LET e == enrich_candidate(cfg.tavily_api_key, world.search, world.enrich)
        d == detect_fake(e.val, world.detect)
        q == score_candidate(e.val, world.score, cfg.scoring_weights)
    IN IF e.raised \/ d.raised
       THEN [raised |-> TRUE, val |-> << >>]
       ELSE IF skip_scoring(d.val)
       THEN [raised |-> FALSE,
             val |-> ScreenedCandidate(c, e.val, d.val, QualificationScoreDefault)]
       ELSE IF q.raised
       THEN [raised |-> TRUE, val |-> << >>]
       ELSE [raised |-> FALSE, val |-> ScreenedCandidate(c, e.val, d.val, q.val)]

\* C23: the outcome of a task, and the result collected for it, is the one that
\* the candidate's own answers and the configuration determine, whatever the
\* other candidates of the batch are, whether their tasks return or raise and
\* however the tasks interleave; and a step that does not move the task of c
\* leaves the locals of c as they are.
C23_TaskIndependence ==
    /\ [](\A c \in Cands :
            LET own == process_one(c, ext[c], config)
            IN /\ pc[c] = "raised" => own.raised
               /\ pc[c] = "returned" => (~own.raised /\ Result(c) = own.val)
               /\ \A i \in DOMAIN screened :
                    screened[i].candidate = c => (~own.raised /\ screened[i] = own.val))
    /\ [][\A c \in Cands :
            pc'[c] = pc[c] =>
              /\ linkedin'[c] = linkedin[c]
              /\ fake_result'[c] = fake_result[c]
              /\ qualification'[c] = qualification[c]
              /\ trace'[c] = trace[c]
              /\ evidence'[c] = evidence[c]]_vars

\* C23 witness: the task of candidate 1 raised, the task of candidate 2, whose
\* services answer differently, returned and its result was collected.
C23_Witness ==
    /\ num = 2
    /\ pc[1] = "raised"
    /\ ext[2] = Genuine
    /\ \E i \in DOMAIN screened : screened[i] = process_one(2, Genuine, config).val

\* the evidence block that holds the candidate's own texts and nothing else
OwnEvidence == <<<<"candidate.experiences">>, <<"candidate.educations">>>>

\* C24: when enrichment returned a profile with found = false (the default profile
\* included), the authenticity stage still runs and, unless the candidate is
\* flagged, so does the scoring stage, which does not raise on the profile; the
\* evidence given to the scoring call is then the candidate's own experience and
\* education text alone. Entries of the profile are in the evidence only when its
\* found is true.
C24_DefaultEnrichmentTolerated ==
    \A c \in Cands :
      /\ (EnrichReturned(c) /\ ~Truthy(linkedin[c].found)) =>
           /\ pc[c] \in Finished \cup {"branch"} => InTrace(c, "detect")
           /\ (pc[c] \in Finished /\ DetectReturned(c) /\ ~skip_scoring(fake_result[c])) =>
                /\ InTrace(c, "score")
                /\ ext[c].score.kind # "construct_fail" =>
                     (pc[c] = "returned" /\ InTrace(c, "llm_score"))
           /\ InTrace(c, "llm_score") => evidence[c] = OwnEvidence
      /\ InTrace(c, "llm_score") =>
           /\ Len(evidence[c]) = 2
           /\ evidence[c][1][1] = "candidate.experiences"
           /\ evidence[c][2][1] = "candidate.educations"
           /\ evidence[c] # OwnEvidence => Truthy(linkedin[c].found)

\* C24 witness: the response said found = false but carried roles and education;
\* the candidate was scored and the evidence held its own texts alone.
C24_Witness ==
    \E c \in Cands :
      /\ config.tavily_api_key
      /\ ext[c].search = "ok"
      /\ ext[c].enrich = EnrichNotFoundRoles
      /\ Truthy(linkedin[c].past_roles)
      /\ pc[c] = "returned"
      /\ InTrace(c, "llm_score")
      /\ evidence[c] = OwnEvidence

\* C25: once the report is made, the flagged results are listed in the order in
\* which they were collected: of two flagged results the one that comes first in
\* flagged is the one that comes first in the collected list.
C25_FlaggedInCollectionOrder ==
    report.made =>
      \A i, j \in DOMAIN report.flagged :
        i < j =>
          /\ Position(report.flagged[i].candidate) > 0
          /\ Position(report.flagged[i].candidate) < Position(report.flagged[j].candidate)

\* C25 witness: two flagged results, collected in the order 2, 1 and listed so.
C25_Witness ==
    /\ report.made
    /\ Len(report.flagged) = 2
    /\ report.flagged[1].candidate = 2
    /\ report.flagged[2].candidate = 1
    /\ screened[1].candidate = 2

\* the result of candidate c in the run that differs from this one only in the
\* threshold (taken at its default) and in the confidence score of the
\* authenticity response (taken as 80)
OtherRun(c) ==
    process_one(c, [ext[c] EXCEPT !.detect.obj["confidence_score"] = JInt(80)],
                [config EXCEPT !.fake_flag_threshold = fake_flag_threshold])

\* a list of results as the list of their candidates
CandidatesOf(xs) == [i \in DOMAIN xs |-> xs[i].candidate]

\* C26: whether a result is flagged, whether its scoring was skipped, its final
\* score and the partition it lands in are those of the run with another
\* threshold and another confidence score: they follow from the risk level (and
\* the composite score) alone.
C26_ThresholdAndConfidenceIgnored ==
    /\ \A c \in Cands :
         pc[c] = "returned" =>
           /\ ~OtherRun(c).raised
           /\ is_flagged_fake(Result(c)) <=> is_flagged_fake(OtherRun(c).val)
           /\ is_flagged_fake(Result(c)) <=> fake_result[c].risk_level \in FlaggedLevels
           /\ InTrace(c, "score") <=> ~skip_scoring(OtherRun(c).val.fake_detection)
           /\ final_score(Result(c)) = final_score(OtherRun(c).val)
    /\ report.made =>
         LET other == generate_report([i \in DOMAIN screened |->
                                         OtherRun(screened[i].candidate).val],
                                      config.report_top_n)
         IN /\ CandidatesOf(report.flagged) = CandidatesOf(other.flagged)
            /\ CandidatesOf(report.top) = CandidatesOf(other.top)
            /\ CandidatesOf(report.rest) = CandidatesOf(other.rest)

\* C26 witness: an uncertain candidate with confidence 0 under the threshold 100
\* was scored and is in top with its composite score.
C26_Witness ==
    /\ report.made
    /\ config.fake_flag_threshold = 100
    /\ Len(report.top) = 1
    /\ report.top[1].fake_detection.risk_level = "uncertain"
    /\ report.top[1].fake_detection.confidence_score = JInt(0)
    /\ final_score(report.top[1]) = 7150

\* C27: once the pre-flight checks have passed, the run reaches a point where
\* the task of every candidate has been started, also when there are more
\* candidates than workers and when tasks raise; a task is started once, from the
\* queue, and is never queued again; a worker is held only by a task that is
\* executing, so a task that returned or raised has freed its worker.
C27_NoStarvation ==
    /\ (main = "submit") ~> (\A c \in Cands : pc[c] \in Running \cup Finished)
    /\ [][\A c \in Cands :
            /\ (pc'[c] = "enrich" /\ pc[c] # "enrich") => pc[c] = "queued"
            /\ pc'[c] = "queued" => pc[c] \in {"new", "queued"}]_vars
    /\ [](\A w \in DOMAIN worker : worker[w] # 0 => pc[worker[w]] \in Running)
    /\ [](\A c \in Cands :
            pc[c] \in Running =>
              Cardinality({w \in DOMAIN worker : worker[w] = c}) = 1)

\* C27 witness: one worker, two candidates; the task of candidate 1 raised and
\* the task of candidate 2, which had to wait for the worker, is executing.
C27_Witness ==
    /\ config.batch_size = 1
    /\ num = 2
    /\ pc[1] = "raised"
    /\ pc[2] \in Running

\* the scoring call of c raises, or its response cannot be parsed into scores
ScoreFailed(c) ==
    \/ ext[c].score.kind \in {"call_fail", "non_json", "non_object"}
    \/ ext[c].score.kind = "object" /\ ext[c].score.fence = "bare"
    \/ ext[c].score.kind = "object" /\ ~ScoreParsed(c)

\* C28: a candidate that is not flagged and whose scoring call failed, or answered
\* something that cannot be parsed, still returns a result, with the default
\* QualificationScore and the final score 0; in the report it is in top or rest,
\* behind every result with a positive final score, and not in flagged.
C28_ScoringFailureKept ==
    \A c \in Cands :
      (InTrace(c, "llm_score") /\ ScoreFailed(c)) =>
        /\ pc[c] = "returned"
        /\ ~is_flagged_fake(Result(c))
        /\ qualification[c] = QualificationScoreDefault
        /\ final_score(Result(c)) = 0
        /\ report.made =>
             /\ \E j \in DOMAIN Ranked : Ranked[j] = Result(c)
             /\ \A j \in DOMAIN report.flagged : report.flagged[j].candidate # c
             /\ \A i, j \in DOMAIN Ranked :
                  (final_score(Ranked[i]) > 0 /\ Ranked[j] = Result(c)) => i < j

\* C28 witness: the response to the scoring call of one candidate was not JSON;
\* its result was collected first and is ranked behind the genuine candidate.
C28_Witness ==
    /\ report.made
    /\ Len(Ranked) = 2
    /\ screened[1] = Ranked[2]
    /\ ext[Ranked[2].candidate] = ScoreGarbled
    /\ final_score(Ranked[1]) > 0
    /\ final_score(Ranked[2]) = 0

====
